---- MODULE Spec2Model ----
(***************************************************************************)
(* Model of the Sefaria Discord bot: the duplicate-event guard of          *)
(* SefariaBot.on_message (src/bot/discord_bot.py), the per-guild           *)
(* auto-reply setting of SefariaCommands (src/bot/commands.py) and the     *)
(* gematria calculator of SefariaCommands.gematria_calculator.             *)
(*                                                                         *)
(* on_message is a coroutine.  discord.py runs every event handler as a    *)
(* task of one asyncio event loop, so a handler runs alone from one await  *)
(* to the next and several handlers can be suspended at their awaits at    *)
(* the same time.  A handler is modelled by a record whose pc is the line  *)
(* it stands at; the handlers in flight form the bag `tasks`.              *)
(***************************************************************************)
EXTENDS Integers, Sequences, FiniteSets, Bags, TLC

\* discord_bot.py:138  if len(self.processed_messages) > 1000
HighWater == 1000
\* discord_bot.py:140  list(self.processed_messages)[:100]
EvictBatch == 100

\* Bounds of the model.
\* Handlers that can be in flight at once.
MaxTasks == 2
\* Message ids the gateway delivers for the first time during a run.
MaxNew == 1
\* Iteration orders of the set that list() can produce: order k lists the k
\* most recently created ids first, then the others from the oldest on (the
\* slot order of a CPython hash table filled with increasing integers).
MaxRot == 1
\* Guilds with an administrator (guild ids 1..NumGuilds); guild id 0 stands
\* for a direct message (discord_bot.py:129, commands.py:532).
NumGuilds == 1

VARIABLES
    processed_messages,   \* SefariaBot.processed_messages (a set of ids)
    auto_reply_enabled,   \* SefariaCommands.auto_reply_enabled (a dict)
    tasks,                \* the on_message invocations in flight (a bag)
    base,                 \* ids 1..base were admitted before the run starts
    next_id,              \* the next message id the gateway has not used yet
    replies,              \* id -> number of replies delivered to the channel
    evicted,              \* watched ids that the cleanup has discarded so far
    last,                 \* log of the event loop's most recent run
    gem_text,             \* the text argument of /gematria
    gem_out,              \* what gematria_calculator computed from it
    gem_log,              \* every calculation so far: <<text, values, whether
                          \* processed_messages held an id at that time>>
    cmd                   \* the /commentary or /text invocation and its run

botvars == <<processed_messages, auto_reply_enabled, tasks, base, next_id,
             replies, evicted, last>>
gemvars == <<gem_text, gem_out, gem_log>>
cmdvars == <<cmd>>
vars == <<processed_messages, auto_reply_enabled, tasks, base, next_id,
          replies, evicted, last, gem_text, gem_out, gem_log, cmd>>

GuildIds == 0..NumGuilds

\* ------------------------------------------------------------------------
\* Pure helpers of the guard, one per expression of on_message.

\* discord_bot.py:122  message_id in self.processed_messages
IsDuplicate_never(id, pm) == FALSE

IsDuplicate(id, pm) == id \in pm

\* discord_bot.py:126  self.processed_messages.add(message_id)
Mark_forgotten(pm, id) == pm

Mark(pm, id) == pm \cup {id}

\* commands.py:566-568  self.auto_reply_enabled.get(guild_id, True)
is_auto_reply_enabled_always(are, guild_id) == TRUE

is_auto_reply_enabled_strict(are, guild_id) ==
    IF guild_id \in DOMAIN are THEN are[guild_id] ELSE FALSE

is_auto_reply_enabled(are, guild_id) ==
    IF guild_id \in DOMAIN are THEN are[guild_id] ELSE TRUE

\* discord_bot.py:138  len(self.processed_messages) > 1000
NeedsCleanup_atleast(pm) == Cardinality(pm) >= HighWater

NeedsCleanup(pm) == Cardinality(pm) > HighWater

\* The ids of S in increasing order; every id is in 1..hi.
Ascending(S, hi) == SelectSeq([i \in 1..hi |-> i], LAMBDA x : x \in S)

\* discord_bot.py:140  list(self.processed_messages): the set in the iteration
\* order of its hash table, which is no order of admission.  Order k lists the
\* k largest ids first and then the others in increasing order.
ListOf(pm, k, hi) ==
    LET s == Ascending(pm, hi)
        L == Len(s)
        r == IF k < L THEN k ELSE L
    IN  SubSeq(s, L - r + 1, L) \o SubSeq(s, 1, L - r)

\* discord_bot.py:140  old_messages = list(...)[:100]
old_messages_short(pm, k, hi) ==
    LET lst == ListOf(pm, k, hi)
        n == IF Len(lst) < EvictBatch - 1 THEN Len(lst) ELSE EvictBatch - 1
    IN  {lst[i] : i \in 1..n}

old_messages(pm, k, hi) ==
    LET lst == ListOf(pm, k, hi)
        n == IF Len(lst) < EvictBatch THEN Len(lst) ELSE EvictBatch
    IN  {lst[i] : i \in 1..n}

\* The iteration orders to tell apart: list() is called (140) only when the
\* cleanup runs.
IterationOrders(pm) == IF NeedsCleanup(pm) THEN 0..MaxRot ELSE {0}

\* discord_bot.py:138-142  the cleanup: the set after it, under order k.
CleanedUp(pm, k, hi) ==
    IF NeedsCleanup(pm) THEN pm \ old_messages(pm, k, hi) ELSE pm

\* The pcs at which a handler is suspended in an await and the event loop is
\* free to run another handler: discord_bot.py:153, 159, 163, 166.  Between
\* lines 112 and 150 on_message has no await.
Yields_anywhere(pc) == TRUE

Yields(pc) == pc \in {"ai", "reply", "apology", "commands"}

\* ------------------------------------------------------------------------
\* State.

\* A handler: the line it stands at and its locals (message_id, guild_id,
\* whether content is non-empty once the mention is stripped); `passed`
\* records whether its id was absent from the set at the membership test.
Handler(pc, id, guild, content, passed) ==
    [pc |-> pc, id |-> id, guild |-> guild, content |-> content,
     passed |-> passed]

\* The ids whose replies and evictions the run records: the ids first
\* delivered during the run.
Watch(b) == (b + 1)..(b + MaxNew)

\* The sizes of processed_messages a run starts from: the empty set of
\* __init__ (discord_bot.py:50) or the set after n distinct admissions whose
\* handlers have all returned, with no cleanup yet (n <= HighWater).
InitSizes == {0, HighWater - 1, HighWater}

\* The log after the event loop ran something other than an on_message
\* entry or the steps that follow it without an await.
Elsewhere == [id |-> 0, what |-> "other", twice |-> FALSE]

\* No /gematria invocation has run: nothing computed (done), no result embed
\* delivered (sent), no error embed delivered (error), no call has raised
\* (raised_at) and the coroutine has not ended (ended).
GemIdle == [done |-> FALSE, standard |-> 0, small |-> 0, ordinal |-> 0,
            special |-> "none", sent |-> FALSE, error |-> FALSE,
            raised_at |-> "none", ended |-> "no"]

\* No /commentary or /text invocation has run.
CmdIdle == [name |-> "none", reference |-> << >>, commentator |-> "",
            events |-> << >>, results |-> << >>, raised_at |-> "none",
            ended |-> "no"]

BotInit ==
    /\ base \in InitSizes
    /\ processed_messages = 1..base
    /\ auto_reply_enabled = << >>              \* commands.py:39
    /\ tasks = EmptyBag
    /\ next_id = base + 1
    /\ replies = [i \in Watch(base) |-> 0]
    /\ evicted = {}
    /\ last = [id |-> 0, what |-> "init", twice |-> FALSE]

Init ==
    /\ BotInit
    /\ gem_text = << >>
    /\ gem_out = GemIdle
    /\ gem_log = {}
    /\ cmd = CmdIdle

\* ------------------------------------------------------------------------
\* The event loop.

InFlight == BagToSet(tasks)

Put_twice(bag, h) == bag (+) SetToBag({h}) (+) SetToBag({h})

Put(bag, h) == bag (+) SetToBag({h})

Take(bag, h) == bag (-) SetToBag({h})

\* The event loop starts a new handler only when every handler in flight is
\* suspended at an await.
LoopFree == \A g \in InFlight : Yields(g.pc)

\* A handler takes its next step when it holds the event loop, or when it
\* is suspended at an await and no other handler holds the loop.
MayStep(h) ==
    /\ BagIn(h, tasks)
    /\ \/ ~Yields(h.pc)
       \/ \A g \in InFlight : Yields(g.pc)

\* ------------------------------------------------------------------------
\* The gateway's messages.

\* Ids the gateway can deliver now: a new one, or (at-least-once delivery)
\* one it has delivered before.
DeliverableIds ==
    (IF next_id <= base + MaxNew THEN {next_id} ELSE {})
        \cup ((base + 1)..(next_id - 1))

\* A message: for the bot's own message (115) nothing else is read; for a
\* message that does not mention the bot (119) neither id, guild nor content
\* is read; for a mention the id (121) and, when the id is not in the set,
\* the guild (129) and whether content is left once the mention is
\* stripped (145-150).  A message whose fields are not read carries the
\* fields of a message of the last guild with content.
Messages ==
    {[id |-> 0, guild |-> 0, own |-> TRUE, mention |-> FALSE, content |-> FALSE],
     [id |-> 0, guild |-> 0, own |-> FALSE, mention |-> FALSE, content |-> FALSE]}
        \cup [id : DeliverableIds \cap processed_messages, guild : {NumGuilds},
              own : {FALSE}, mention : {TRUE}, content : {TRUE}]
        \cup [id : DeliverableIds \ processed_messages, guild : GuildIds,
              own : {FALSE}, mention : {TRUE}, content : BOOLEAN]

\* discord_bot.py:112-126  on_message from its entry to the guard: the
\* author test, the mention test, the membership test and the insertion.
on_message(m) ==
    /\ LoopFree
    /\ UNCHANGED <<auto_reply_enabled, base, replies, evicted, gemvars, cmdvars>>
    /\ IF m.own
       THEN \* 115-116: the bot's own message
            /\ UNCHANGED <<processed_messages, tasks, next_id>>
            /\ last' = [id |-> 0, what |-> "own", twice |-> FALSE]
       ELSE IF ~m.mention
       THEN \* 119 is false; 166: await self.process_commands(message)
            /\ BagCardinality(tasks) < MaxTasks
            /\ tasks' = Put(tasks, Handler("commands", 0, 0, FALSE, FALSE))
            /\ UNCHANGED <<processed_messages, next_id>>
            /\ last' = [id |-> 0, what |-> "plain", twice |-> FALSE]
       ELSE IF IsDuplicate(m.id, processed_messages)
       THEN \* 122-123: return
            /\ UNCHANGED <<processed_messages, tasks>>
            /\ next_id' = IF m.id = next_id THEN next_id + 1 ELSE next_id
            /\ last' = [id |-> m.id, what |-> "duplicate",
                        twice |-> last.what = "admitted" /\ last.id = m.id]
       ELSE \* 126: self.processed_messages.add(message_id)
            /\ BagCardinality(tasks) < MaxTasks
            /\ processed_messages' = Mark(processed_messages, m.id)
            /\ tasks' = Put(tasks, Handler("autoreply", m.id, m.guild,
                                m.content, m.id \notin processed_messages))
            /\ next_id' = IF m.id = next_id THEN next_id + 1 ELSE next_id
            /\ last' = [id |-> m.id, what |-> "admitted",
                        twice |-> last.what = "admitted" /\ last.id = m.id]

\* discord_bot.py:128-135  the auto-reply check of the message's guild.
CheckAutoReply(h) ==
    /\ h.pc = "autoreply"
    /\ MayStep(h)
    /\ UNCHANGED <<processed_messages, auto_reply_enabled, base, next_id,
                   replies, evicted, last, gemvars, cmdvars>>
    /\ IF is_auto_reply_enabled(auto_reply_enabled, h.guild)
       THEN tasks' = Put(Take(tasks, h), [h EXCEPT !.pc = "cleanup"])
       ELSE tasks' = Take(tasks, h)           \* 135: return

\* discord_bot.py:137-153  the cleanup, then the content left once the
\* mention is stripped: with content the handler awaits the AI client,
\* without it goes on to process_commands (166).
Cleanup(h) ==
    /\ h.pc = "cleanup"
    /\ MayStep(h)
    /\ UNCHANGED <<auto_reply_enabled, base, next_id, replies, last, gemvars, cmdvars>>
    /\ \E k \in IterationOrders(processed_messages) :
         LET after == CleanedUp(processed_messages, k, base + MaxNew)
         IN  /\ processed_messages' = after
             /\ evicted' = evicted \cup
                    ((processed_messages \ after) \cap Watch(base))
    /\ tasks' = Put(Take(tasks, h),
                    Handler(IF h.content THEN "ai" ELSE "commands",
                            h.id, 0, FALSE, h.passed))

\* discord_bot.py:153-156  ai_client.generate_response returns or raises;
\* on return the handler goes on to message.reply(response) (159), on an
\* exception to the except branch (161-163).
AIResponds(h, ok) ==
    /\ h.pc = "ai"
    /\ MayStep(h)
    /\ tasks' = Put(Take(tasks, h),
                    [h EXCEPT !.pc = IF ok THEN "reply" ELSE "apology"])
    /\ UNCHANGED <<processed_messages, auto_reply_enabled, base, next_id,
                   replies, evicted, gemvars, cmdvars>>
    /\ last' = Elsewhere

\* discord_bot.py:159  await message.reply(response) delivers the reply or
\* raises, and then the except branch sends the apology (163).
ReplySent(h, ok) ==
    /\ h.pc = "reply"
    /\ MayStep(h)
    /\ tasks' = Put(Take(tasks, h),
                    [h EXCEPT !.pc = IF ok THEN "commands" ELSE "apology"])
    /\ replies' = IF ok THEN [replies EXCEPT ![h.id] = @ + 1] ELSE replies
    /\ UNCHANGED <<processed_messages, auto_reply_enabled, base, next_id,
                   evicted, gemvars, cmdvars>>
    /\ last' = Elsewhere

\* discord_bot.py:163  await message.reply("I'm sorry, ...") delivers the
\* apology, or raises out of on_message into on_error (108-110).
ApologySent(h, ok) ==
    /\ h.pc = "apology"
    /\ MayStep(h)
    /\ tasks' = IF ok THEN Put(Take(tasks, h), [h EXCEPT !.pc = "commands"])
                ELSE Take(tasks, h)
    /\ replies' = IF ok THEN [replies EXCEPT ![h.id] = @ + 1] ELSE replies
    /\ UNCHANGED <<processed_messages, auto_reply_enabled, base, next_id,
                   evicted, gemvars, cmdvars>>
    /\ last' = Elsewhere

\* discord_bot.py:166  await self.process_commands(message) returns and
\* on_message ends.
CommandsProcessed(h) ==
    /\ h.pc = "commands"
    /\ MayStep(h)
    /\ tasks' = Take(tasks, h)
    /\ UNCHANGED <<processed_messages, auto_reply_enabled, base, next_id,
                   replies, evicted, gemvars, cmdvars>>
    /\ last' = Elsewhere

\* commands.py:512-533  /autoreply: without the administrator permission
\* the command answers Permission Denied and returns (516-527); in a direct
\* message (guild 0) the user has no guild_permissions, so is_admin is False.
\* When interaction.response.defer() (529) raises, line 533 is not reached.
\* The log keeps the Permission Denied answer.
toggle_autoreply_open(g, enabled, is_admin, deferred) ==
    /\ LoopFree
    /\ g = 0 => ~is_admin
    /\ auto_reply_enabled' =
           [x \in DOMAIN auto_reply_enabled \cup {g} |->
               IF x = g THEN enabled ELSE auto_reply_enabled[x]]
    /\ UNCHANGED <<processed_messages, tasks, base, next_id, replies,
                   evicted, gemvars, cmdvars>>
    /\ last' = Elsewhere

toggle_autoreply(g, enabled, is_admin, deferred) ==
    /\ LoopFree
    /\ g = 0 => ~is_admin
    /\ auto_reply_enabled' =
           IF is_admin /\ deferred
           THEN [x \in DOMAIN auto_reply_enabled \cup {g} |->
                    IF x = g THEN enabled ELSE auto_reply_enabled[x]]
           ELSE auto_reply_enabled
    /\ UNCHANGED <<processed_messages, tasks, base, next_id, replies,
                   evicted, gemvars, cmdvars>>
    /\ last' = IF is_admin THEN Elsewhere
               ELSE [id |-> 0, what |-> "denied", twice |-> FALSE]

\* The /autoreply invocations: the guild (532) and the value of `enabled`
\* (533) are read only when the user is an administrator and the defer
\* succeeded.  An invocation whose guild is not read is one of the last
\* guild, or a direct message for a user without the permission.
Toggles ==
    {<<g, FALSE, FALSE, FALSE>> : g \in {0, NumGuilds}}
        \cup {<<NumGuilds, FALSE, TRUE, FALSE>>}
        \cup {<<g, e, TRUE, TRUE>> : g \in GuildIds \ {0}, e \in BOOLEAN}

Next ==
    \/ \E m \in Messages : on_message(m)
    \/ \E h \in InFlight : CheckAutoReply(h)
    \/ \E h \in InFlight : Cleanup(h)
    \/ \E h \in InFlight, ok \in BOOLEAN : AIResponds(h, ok)
    \/ \E h \in InFlight, ok \in BOOLEAN : ReplySent(h, ok)
    \/ \E h \in InFlight, ok \in BOOLEAN : ApologySent(h, ok)
    \/ \E h \in InFlight : CommandsProcessed(h)
    \/ \E x \in Toggles : toggle_autoreply(x[1], x[2], x[3], x[4])

Spec == Init /\ [][Next]_vars

\* The bot right after construction: processed_messages is the empty set of
\* __init__ (discord_bot.py:50).
FreshInit == base = 0 /\ Init

FreshSpec == FreshInit /\ [][Next]_vars

\* ------------------------------------------------------------------------
\* The gematria calculator.  A text is a sequence of characters; a Hebrew
\* letter is written by its name and a final form as <name>_final.

\* commands.py:2224-2229  gematria_values, in the dict's insertion order.
gematria_values_sofit ==
    << <<"alef", 1>>, <<"bet", 2>>, <<"gimel", 3>>, <<"dalet", 4>>,
       <<"he", 5>>, <<"vav", 6>>, <<"zayin", 7>>, <<"chet", 8>>,
       <<"tet", 9>>, <<"yod", 10>>, <<"kaf", 20>>, <<"kaf_final", 500>>,
       <<"lamed", 30>>, <<"mem", 40>>, <<"mem_final", 600>>, <<"nun", 50>>,
       <<"nun_final", 700>>, <<"samekh", 60>>, <<"ayin", 70>>, <<"pe", 80>>,
       <<"pe_final", 800>>, <<"tsadi", 90>>, <<"tsadi_final", 900>>,
       <<"qof", 100>>, <<"resh", 200>>, <<"shin", 300>>, <<"tav", 400>> >>

gematria_values ==
    << <<"alef", 1>>, <<"bet", 2>>, <<"gimel", 3>>, <<"dalet", 4>>,
       <<"he", 5>>, <<"vav", 6>>, <<"zayin", 7>>, <<"chet", 8>>,
       <<"tet", 9>>, <<"yod", 10>>, <<"kaf", 20>>, <<"kaf_final", 20>>,
       <<"lamed", 30>>, <<"mem", 40>>, <<"mem_final", 40>>, <<"nun", 50>>,
       <<"nun_final", 50>>, <<"samekh", 60>>, <<"ayin", 70>>, <<"pe", 80>>,
       <<"pe_final", 80>>, <<"tsadi", 90>>, <<"tsadi_final", 90>>,
       <<"qof", 100>>, <<"resh", 200>>, <<"shin", 300>>, <<"tav", 400>> >>

\* list(gematria_values.keys())
Keys == [i \in 1..Len(gematria_values) |-> gematria_values[i][1]]

\* char in gematria_values
InTable(char) == \E i \in 1..Len(Keys) : Keys[i] = char

\* list(gematria_values.keys()).index(char), for a char of the table
KeyIndex(char) == (CHOOSE i \in 1..Len(Keys) : Keys[i] = char) - 1

\* gematria_values.get(char, default)
Get_default_one(char, default) ==
    IF InTable(char) THEN gematria_values[KeyIndex(char) + 1][2] ELSE 1

Get_counting(char, default) ==
    IF InTable(char)
    THEN gematria_values[KeyIndex(char) + 1][2] + Cardinality(processed_messages)
    ELSE default

Get(char, default) ==
    IF InTable(char) THEN gematria_values[KeyIndex(char) + 1][2] ELSE default

\* Python's `a or b` on integers
PyOr(a, b) == IF a # 0 THEN a ELSE b

RECURSIVE Sum(_)
\* sum(...) of a sequence of integers
Sum(ns) == IF ns = << >> THEN 0 ELSE Head(ns) + Sum(Tail(ns))

\* [... for char in text if char in gematria_values]
InTableChars(text) == SelectSeq(text, InTable)

\* commands.py:2232  sum(gematria_values.get(char, 0) for char in text)
standard_value(text) == Sum([i \in 1..Len(text) |-> Get(text[i], 0)])

\* commands.py:2235  sum(gematria_values.get(char, 0) % 9 or 9
\*                       for char in text if char in gematria_values)
small_value_mod(text) ==
    LET cs == InTableChars(text)
    IN  Sum([i \in 1..Len(cs) |-> Get(cs[i], 0) % 9])

small_value(text) ==
    LET cs == InTableChars(text)
    IN  Sum([i \in 1..Len(cs) |-> PyOr(Get(cs[i], 0) % 9, 9)])

\* commands.py:2236  sum(list(gematria_values.keys()).index(char) + 1
\*                       for char in text if char in gematria_values)
ordinal_value(text) ==
    LET cs == InTableChars(text)
    IN  Sum([i \in 1..Len(cs) |-> KeyIndex(cs[i]) + 1])

\* commands.py:2249-2258  special_numbers
special_numbers_short ==
    << <<26, "yhvh">>, <<86, "elohim">>, <<72, "chesed">>,
       <<18, "chai">>, <<36, "righteous">>, <<248, "limbs">>,
       <<365, "negative_commands">> >>

special_numbers ==
    << <<26, "yhvh">>, <<86, "elohim">>, <<72, "chesed">>, <<613, "mitzvot">>,
       <<18, "chai">>, <<36, "righteous">>, <<248, "limbs">>,
       <<365, "negative_commands">> >>

\* commands.py:2260-2265  the Special Significance field, "none" when absent
special_of(n) ==
    IF \E i \in 1..Len(special_numbers) : special_numbers[i][1] = n
    THEN special_numbers[CHOOSE i \in 1..Len(special_numbers) :
                             special_numbers[i][1] = n][2]
    ELSE "none"

\* The texts /gematria is called with.
\* Length of the texts enumerated in full.
MaxLen == 2

Letters == {Keys[i] : i \in 1..Len(Keys)}

\* Characters outside the table: a Latin letter and a space.
OtherChars == {"a", "space"}

Chars == Letters \cup OtherChars

SampleTexts ==
    { <<"yod", "he", "vav", "he">>,
      <<"alef", "lamed", "he", "yod", "mem_final">>,
      <<"chet", "space", "yod", "a">>,
      <<"resh", "mem", "chet">>,
      <<"shin", "samekh", "he">>,
      <<"tav", "resh", "yod", "gimel">> }

Texts == UNION {[1..n -> Chars] : n \in 0..MaxLen} \cup SampleTexts

\* What Discord does to the calls of one /gematria invocation:
\* <<deferred, sent, reacted, apologised>> says whether
\* interaction.response.defer() (2220), followup.send(embed=embed) (2268),
\* the add_reaction calls (2272-2274) and the followup.send of the except
\* branch (2283) return; a call that is not reached is written FALSE.
GemOutcomes ==
    { <<FALSE, FALSE, FALSE, FALSE>>,
      <<TRUE, TRUE, TRUE, FALSE>>,
      <<TRUE, TRUE, FALSE, TRUE>>, <<TRUE, TRUE, FALSE, FALSE>>,
      <<TRUE, FALSE, FALSE, TRUE>>, <<TRUE, FALSE, FALSE, FALSE>> }

\* The three values and the annotation of one calculation.
GemValues(out) ==
    <<out.standard, out.small, out.ordinal, out.special>>

\* commands.py:2218-2283  gematria_calculator: defer (outside the try), the
\* three values and the annotation of the embed, the send and the reactions;
\* an exception inside the try goes to the except branch, which sends the
\* error embed; an exception of defer or of the except branch leaves the
\* coroutine.
gematria_calculator(deferred, sent, reacted, apologised) ==
    /\ gem_out.ended = "no"
    /\ IF ~deferred
       THEN /\ gem_out' = [GemIdle EXCEPT !.raised_at = "defer",
                                          !.ended = "raised"]
            /\ gem_log' = gem_log
       ELSE LET caught == ~(sent /\ reacted)
                out == [done |-> TRUE,
                        standard |-> standard_value(gem_text),
                        small |-> small_value(gem_text),
                        ordinal |-> ordinal_value(gem_text),
                        special |-> special_of(standard_value(gem_text)),
                        sent |-> sent,
                        error |-> caught /\ apologised,
                        raised_at |-> IF ~sent THEN "send"
                                      ELSE IF ~reacted THEN "react"
                                      ELSE "none",
                        ended |-> IF caught /\ ~apologised THEN "raised"
                                  ELSE "normal"]
            IN  /\ gem_out' = out
                /\ gem_log' = gem_log \cup
                       {<<gem_text, GemValues(out), processed_messages # {}>>}
    /\ UNCHANGED <<botvars, gem_text, cmdvars>>

GemInit ==
    /\ base = 0
    /\ BotInit
    /\ gem_text \in Texts
    /\ gem_out = GemIdle
    /\ gem_log = {}
    /\ cmd = CmdIdle

GemNext ==
    \E o \in GemOutcomes : gematria_calculator(o[1], o[2], o[3], o[4])

GemSpec == GemInit /\ [][GemNext]_vars

\* The calculator beside the message handlers: /gematria is invoked again
\* and again, with the same text, while mentions arrive and /autoreply is used.
PureTexts == { <<"chet", "space", "yod", "a">> }

\* A further /gematria interaction arrives once the previous one has ended.
gematria_request(text) ==
    /\ gem_out.ended # "no"
    /\ gem_text' = text
    /\ gem_out' = GemIdle
    /\ UNCHANGED <<botvars, gem_log, cmdvars>>

PureInit ==
    /\ base = 0
    /\ BotInit
    /\ gem_text \in PureTexts
    /\ gem_out = GemIdle
    /\ gem_log = {}
    /\ cmd = CmdIdle

PureNext ==
    \/ Next
    \/ GemNext
    \/ \E t \in PureTexts : gematria_request(t)

PureSpec == PureInit /\ [][PureNext]_vars

\* ------------------------------------------------------------------------
\* The /text and /commentary commands.  A reference is a sequence of
\* characters, a lookup key too; a commentator option is a string.

\* Bound: length of the references enumerated in full.
MaxRefLen == 2

\* str.replace(old, new) for one-character old and new: every occurrence.
Replace_first(str, old, new) ==
    [i \in 1..Len(str) |->
        IF str[i] = old /\ (\A j \in 1..(i - 1) : str[j] # old)
        THEN new ELSE str[i]]

Replace(str, old, new) ==
    [i \in 1..Len(str) |-> IF str[i] = old THEN new ELSE str[i]]

\* str.lower() on the commentator options of CommentatorOptions.
Lower_lenient(str) ==
    CASE str = "Rashi" -> "rashi"
      [] str = "RADAK" -> "radak"
      [] str = "None" -> "none"
      [] str = "rambam" -> "ramban"
      [] OTHER -> str

Lower(str) ==
    CASE str = "Rashi" -> "rashi"
      [] str = "RADAK" -> "radak"
      [] str = "None" -> "none"
      [] OTHER -> str

\* commands.py:185-192  commentator_map of get_text, in the dict's order.
get_text_commentator_map ==
    << <<"rashi", <<"R", "a", "s", "h", "i", "_", "o", "n", "_">> >>,
       <<"ibn_ezra", <<"I", "b", "n", "_", "E", "z", "r", "a", "_", "o", "n", "_">> >>,
       <<"ramban", <<"R", "a", "m", "b", "a", "n", "_", "o", "n", "_">> >>,
       <<"ralbag", <<"R", "a", "l", "b", "a", "g", "_", "o", "n", "_">> >>,
       <<"sforno", <<"S", "f", "o", "r", "n", "o", "_", "o", "n", "_">> >>,
       <<"radak", <<"R", "a", "d", "a", "k", "_", "o", "n", "_">> >> >>

\* commands.py:273-280  commentator_map of commentary, in the dict's order.
commentator_map_merged ==
    << <<"rashi", <<"R", "a", "s", "h", "i", "_", "o", "n", "_">> >>,
       <<"ibn_ezra", <<"I", "b", "n", "_", "E", "z", "r", "a", "_", "o", "n", "_">> >>,
       <<"ramban", <<"R", "a", "s", "h", "i", "_", "o", "n", "_">> >>,
       <<"ralbag", <<"R", "a", "l", "b", "a", "g", "_", "o", "n", "_">> >>,
       <<"sforno", <<"S", "f", "o", "r", "n", "o", "_", "o", "n", "_">> >>,
       <<"radak", <<"R", "a", "d", "a", "k", "_", "o", "n", "_">> >> >>

commentator_map ==
    << <<"rashi", <<"R", "a", "s", "h", "i", "_", "o", "n", "_">> >>,
       <<"ibn_ezra", <<"I", "b", "n", "_", "E", "z", "r", "a", "_", "o", "n", "_">> >>,
       <<"ramban", <<"R", "a", "m", "b", "a", "n", "_", "o", "n", "_">> >>,
       <<"ralbag", <<"R", "a", "l", "b", "a", "g", "_", "o", "n", "_">> >>,
       <<"sforno", <<"S", "f", "o", "r", "n", "o", "_", "o", "n", "_">> >>,
       <<"radak", <<"R", "a", "d", "a", "k", "_", "o", "n", "_">> >> >>

\* commentator_name in map
InMap(map, commentator_name) ==
    \E i \in 1..Len(map) : map[i][1] = commentator_name

\* map[commentator_name], for a name of the map
Label(map, commentator_name) ==
    map[CHOOSE i \in 1..Len(map) : map[i][1] = commentator_name][2]

\* commands.py:198  reference.replace(" ", ".").replace(":", ".")
get_text_formatted_ref(reference) ==
    Replace(Replace(reference, " ", "."), ":", ".")

\* commands.py:294  reference.replace(" ", "_").replace(":", ".")
commentary_formatted_ref(reference) ==
    Replace(Replace(reference, " ", "_"), ":", ".")

\* commands.py:199, 295  f"{commentator_map[commentator_name]}{formatted_ref}"
commentary_ref(map, commentator_name, formatted_ref) ==
    Label(map, commentator_name) \o formatted_ref

\* The events of a run: a call of sefaria_client.get_text with a key, and a
\* message delivered to the user by interaction.followup.send.
LookupOf(key) == <<"lookup", key>>

Sent(what) == <<"send", what>>

\* A try block that ran into `raised` or not, and its except branch
\* (216-223, 315-322): the error embed is sent, and when that send raises
\* too the exception leaves the coroutine.
Caught_silent(events, raised, apologised) ==
    [events |-> events,
     raised_at |-> IF raised THEN "try" ELSE "none",
     ended |-> "normal"]

Caught(events, raised, apologised) ==
    [events |-> IF raised /\ apologised
                THEN Append(events, Sent("error")) ELSE events,
     raised_at |-> IF raised THEN "try" ELSE "none",
     ended |-> IF raised /\ ~apologised THEN "raised" ELSE "normal"]

\* interaction.response.defer() raises (164, 269): it stands before the try,
\* so the exception leaves the coroutine.
NotDeferred == [events |-> << >>, raised_at |-> "defer", ended |-> "raised"]

\* One followup.send inside the try block: delivered, or it raises.
Deliver_as_error(events, what, sent, apologised) ==
    Caught(IF sent
           THEN Append(events, Sent(IF what = "commentary_unavailable"
                                    THEN "error" ELSE what))
           ELSE events,
           ~sent, apologised)

Deliver(events, what, sent, apologised) ==
    Caught(IF sent THEN Append(events, Sent(what)) ELSE events,
           ~sent, apologised)

\* What sefaria_client.get_text does: it returns the text, returns nothing,
\* or raises.
Fetches == {"found", "empty", "raise"}

\* What the client did for each lookup of a run, in order: `first` for the
\* first lookup and `then` for the one after it.
ResultsOf(events, first, then) ==
    LET n == Len(SelectSeq(events, LAMBDA e : e[1] = "lookup"))
    IN  [i \in 1..n |-> IF i = 1 THEN first ELSE then]

\* commands.py:164-223  the run of get_text.  main and fetched are what the
\* client does for the main text and for the commentary; sent1 and sent2
\* whether the message after each is formatted and delivered; a call that is
\* not reached is not read.
get_text_run(reference, option, deferred, main, sent1, fetched, sent2, apologised) ==
    LET e1 == <<LookupOf(reference)>>                                  \* 168
        commentator_name == Lower(option)                              \* 194
        key == commentary_ref(get_text_commentator_map, commentator_name,
                              get_text_formatted_ref(reference))       \* 199
        e2 == Append(e1, Sent("main_text"))                            \* 181
        e3 == Append(e2, LookupOf(key))                                \* 202
    IN  IF ~deferred THEN NotDeferred                                  \* 164
        ELSE IF main = "raise" THEN Caught(e1, TRUE, apologised)
        ELSE IF main = "empty"                                         \* 170
        THEN Deliver(e1, "text_not_found", sent1, apologised)
        ELSE IF ~sent1 THEN Caught(e1, TRUE, apologised)
        ELSE IF option = "" \/ Lower(option) = "none"                  \* 184
        THEN Caught(e2, FALSE, apologised)
        ELSE IF ~InMap(get_text_commentator_map, commentator_name)     \* 195
        THEN Caught(e2, FALSE, apologised)
        ELSE IF fetched = "raise" THEN Caught(e3, TRUE, apologised)
        ELSE IF fetched = "found"                                      \* 204
        THEN Deliver(e3, "commentary", sent2, apologised)
        ELSE Deliver(e3, "commentary_unavailable", sent2, apologised)

\* commands.py:269-322  the run of commentary.
commentary_run(reference, commentator, deferred, fetched, sent, apologised) ==
    LET commentator_name == Lower(commentator)                         \* 282
        key == commentary_ref(commentator_map, commentator_name,
                              commentary_formatted_ref(reference))     \* 295
        e1 == <<LookupOf(key)>>                                        \* 298
    IN  IF ~deferred THEN NotDeferred                                  \* 269
        ELSE IF ~InMap(commentator_map, commentator_name)              \* 283
        THEN Deliver(<< >>, "unknown_commentator", sent, apologised)
        ELSE IF fetched = "raise" THEN Caught(e1, TRUE, apologised)
        ELSE IF fetched = "empty"                                      \* 300
        THEN Deliver(e1, "commentary_not_found", sent, apologised)
        ELSE Deliver(e1, "commentary", sent, apologised)

\* The references the commands are called with: over the space and the
\* colon, which the commands replace, and a letter and a dot, which they
\* keep; and the reference "Genesis 1:1".
RefChars == {"G", " ", ":", "."}

GenesisRef == <<"G", "e", "n", "e", "s", "i", "s", " ", "1", ":", "1">>

References == UNION {[1..n -> RefChars] : n \in 0..MaxRefLen} \cup {GenesisRef}

\* The commentator options: the six keys, two of them in another case, the
\* default "none" of /text and its capitalised form, a name that is no key,
\* and the empty option.
CommentatorOptions ==
    {"rashi", "ibn_ezra", "ramban", "ralbag", "sforno", "radak",
     "Rashi", "RADAK", "none", "None", "rambam", ""}

\* commands.py:156-223  /text
get_text(reference, option, deferred, main, sent1, fetched, sent2, apologised) ==
    /\ cmd.name = "none"
    /\ LET run == get_text_run(reference, option, deferred, main, sent1,
                               fetched, sent2, apologised)
       IN  cmd' = [name |-> "text", reference |-> reference,
                   commentator |-> option, events |-> run.events,
                   results |-> ResultsOf(run.events, main, fetched),
                   raised_at |-> run.raised_at, ended |-> run.ended]
    /\ UNCHANGED <<botvars, gemvars>>

\* commands.py:261-322  /commentary
commentary(reference, commentator, deferred, fetched, sent, apologised) ==
    /\ cmd.name = "none"
    /\ LET run == commentary_run(reference, commentator, deferred, fetched,
                                 sent, apologised)
       IN  cmd' = [name |-> "commentary", reference |-> reference,
                   commentator |-> commentator, events |-> run.events,
                   results |-> ResultsOf(run.events, fetched, fetched),
                   raised_at |-> run.raised_at, ended |-> run.ended]
    /\ UNCHANGED <<botvars, gemvars>>

CmdInit ==
    /\ base = 0
    /\ BotInit
    /\ gem_text \in PureTexts
    /\ gem_out = GemIdle
    /\ gem_log = {}
    /\ cmd = CmdIdle

\* What the calls of one run of /text do, <<deferred, main, sent1, fetched,
\* sent2, apologised>>.  A call that cannot be reached is not read, so it
\* is given one value: nothing after a failed defer, no commentary after a
\* main text that was not found and sent, and no send after a lookup that
\* raised.
TextOutcomes ==
    {o \in BOOLEAN \X Fetches \X BOOLEAN \X Fetches \X BOOLEAN \X BOOLEAN :
        /\ ~o[1] => (o[2] = "found" /\ o[3] /\ o[4] = "found" /\ o[5] /\ o[6])
        /\ (o[2] # "found" \/ ~o[3]) => (o[4] = "found" /\ o[5])
        /\ o[2] = "raise" => o[3]
        /\ o[4] = "raise" => o[5]}

\* What the calls of one run of /commentary do, <<deferred, fetched, sent,
\* apologised>>, in the same way.
CommentaryOutcomes ==
    {o \in BOOLEAN \X Fetches \X BOOLEAN \X BOOLEAN :
        /\ ~o[1] => (o[2] = "found" /\ o[3] /\ o[4])
        /\ o[2] = "raise" => o[3]}

\* An invocation of /text or /commentary is taken up only while none has
\* run (the guard of both actions), so their inputs are enumerated in that
\* state only; /gematria runs beside them.
CmdNext ==
    \/ /\ cmd.name = "none"
       /\ \/ \E r \in References, c \in CommentatorOptions, o \in TextOutcomes :
                   get_text(r, c, o[1], o[2], o[3], o[4], o[5], o[6])
          \/ \E r \in References, c \in CommentatorOptions, o \in CommentaryOutcomes :
                   commentary(r, c, o[1], o[2], o[3], o[4])
    \/ GemNext

CmdSpec == CmdInit /\ [][CmdNext]_vars

\* ------------------------------------------------------------------------
\* Properties of the duplicate-event guard (specification Spec).

\* The step is an entry into on_message that the log or the bag shows.
Arrived == last' # last \/ BagCardinality(tasks') > BagCardinality(tasks)

\* The event of the step reached the guard: a mention by another author.
Guarded == Arrived /\ last'.what \in {"duplicate", "admitted"}

\* The pcs between the insertion of the id and the end of the cleanup.
InGuard(h) == h.pc \in {"autoreply", "cleanup"}

\* The pcs of the reply logic.
InReplyLogic(h) == h.pc \in {"autoreply", "cleanup", "ai", "reply", "apology"}

\* The handlers in flight that passed the membership test with id i.
Passed(i) == {h \in InFlight : h.id = i /\ h.passed}

PassedCount(i) ==
    LET hs == Passed(i)
    IN  IF hs = {} THEN 0
        ELSE BagCardinality([h \in hs |-> CopiesIn(h, tasks)])

\* C1 as claimed: no message id is ever answered twice; every id has at most
\* one reply over the whole run.
C1_NeverAnsweredTwice == \A i \in DOMAIN replies : replies[i] <= 1

\* C1 amended: an id that the cleanup has never discarded from
\* processed_messages has at most one reply, whatever the guilds, the
\* auto-reply settings and the redeliveries.
C1_AnsweredOnceUnlessEvicted ==
    \A i \in DOMAIN replies : i \notin evicted => replies[i] <= 1

\* C1 witness: an answered id was delivered again and discarded.
C1_Witness ==
    /\ last.what = "duplicate"
    /\ last.id \in DOMAIN replies
    /\ replies[last.id] = 1
    /\ last.id \notin evicted

\* C2: a mention event whose id is in processed_messages is discarded: the
\* set, the handlers in flight (so no AI request, no reply and no error of
\* this invocation) and the replies are unchanged; a mention event whose id
\* is not in the set is admitted, its id is in the set right after the guard
\* and its handler stands at the auto-reply check.
C2_GuardDiscardsOrAdmits ==
    [][Guarded =>
         IF last'.id \in processed_messages
         THEN /\ last'.what = "duplicate"
              /\ processed_messages' = processed_messages
              /\ tasks' = tasks
              /\ replies' = replies
         ELSE /\ last'.what = "admitted"
              /\ last'.id \in processed_messages'
              /\ processed_messages' = processed_messages \cup {last'.id}
              /\ \E g \in GuildIds, c \in BOOLEAN :
                    tasks' = Put(tasks, Handler("autoreply", last'.id, g, c, TRUE))
      ]_vars

\* C2 witness: a duplicate was discarded while the first delivery's handler
\* is still in flight.
C2_Witness ==
    /\ last.what = "duplicate"
    /\ last.id \in processed_messages
    /\ \E h \in InFlight : h.id = last.id /\ h.passed

\* C3 as claimed: when the same mention-event id is delivered twice in
\* immediate succession and the first delivery is admitted, the second is
\* discarded, whatever the size of processed_messages.
C3_TwiceAdmitsOnce == last.twice => last.what = "duplicate"

\* C4 as claimed: processed_messages never holds more than 1001 ids, and at
\* most 1000 when an on_message invocation returns.
C4_Bounded ==
    /\ [](Cardinality(processed_messages) <= HighWater + 1)
    /\ [][BagCardinality(tasks') < BagCardinality(tasks)
            => Cardinality(processed_messages') <= HighWater]_vars

\* C5 as claimed: a handler that admitted its event evicts exactly when the
\* set holds more than 1000 ids, and then exactly 100 of them; after 1001
\* distinct admissions from the empty set the size is 901 and at least 900
\* of the admitted ids are present.
C5_EvictsExactlyWhenOver ==
    /\ [][\A h \in InFlight :
            /\ (h.pc = "autoreply"
                  /\ BagCardinality(tasks') < BagCardinality(tasks)
                  /\ Cardinality(processed_messages) > HighWater)
               => Cardinality(processed_messages')
                     = Cardinality(processed_messages) - EvictBatch
            /\ (h.pc = "cleanup" /\ tasks' # tasks)
               => IF Cardinality(processed_messages) > HighWater
                  THEN /\ processed_messages' \subseteq processed_messages
                       /\ Cardinality(processed_messages')
                             = Cardinality(processed_messages) - EvictBatch
                  ELSE processed_messages' = processed_messages
         ]_vars
    /\ []((/\ next_id = HighWater + 2
           /\ last = [id |-> HighWater + 1, what |-> "admitted", twice |-> FALSE]
           /\ LoopFree)
          => /\ Cardinality(processed_messages) = HighWater + 1 - EvictBatch
             /\ Cardinality(processed_messages \cap (1..(HighWater + 1)))
                   >= HighWater - EvictBatch)

\* C6: the guard comes first and gates the reply logic: a handler in the
\* reply logic passed the membership test, its id is recorded when it stands
\* at the auto-reply check, and every reply is sent by a handler that passed.
C6_GuardGatesReplies ==
    /\ [](\A h \in InFlight :
            /\ InReplyLogic(h) => h.passed
            /\ h.pc = "autoreply" => h.id \in processed_messages)
    /\ [][replies' # replies =>
            \E h \in InFlight :
               /\ h.passed
               /\ h.pc \in {"reply", "apology"}
               /\ replies' = [replies EXCEPT ![h.id] = @ + 1]
         ]_vars

\* C6 witness: a reply was delivered and its handler goes on to the commands.
C6_Witness ==
    \E h \in InFlight :
       h.pc = "commands" /\ h.passed /\ replies[h.id] = 1

\* While a handler is between its insertion and the end of its cleanup, a
\* step is its own: the other handlers stay where they are, no new handler
\* starts and the auto-reply settings are not written.
Atomic ==
    \A h \in InFlight :
       InGuard(h) =>
          /\ Take(tasks, h) \sqsubseteq tasks'
          /\ BagCardinality(tasks') <= BagCardinality(tasks)
          /\ auto_reply_enabled' = auto_reply_enabled
          /\ last' = last

\* C7 as claimed: the test, the insertion and the eviction of one event run
\* with no other handler in between, and no two handlers in flight have
\* passed the membership test with the same id.
C7_NoDoublePass ==
    /\ [][Atomic]_vars
    /\ [](\A i \in DOMAIN replies : PassedCount(i) <= 1)

\* C7 amended: the test, the insertion and the eviction of one event run
\* with no other handler in between; at most one handler stands between
\* insertion and cleanup; and two handlers in flight have passed the
\* membership test with the same id only when the cleanup discarded that id
\* in between.
C7_AtomicGuard ==
    /\ [][Atomic]_vars
    /\ [](BagCardinality([h \in {g \in InFlight : InGuard(g)} |->
                             CopiesIn(h, tasks)] @@ EmptyBag) <= 1)
    /\ [](\A i \in DOMAIN replies : PassedCount(i) > 1 => i \in evicted)

\* C7 witness: one handler stands before its cleanup while another handler
\* is suspended at its AI call or in process_commands.
C7_Witness ==
    \E h, g \in InFlight :
       h.pc = "cleanup" /\ g.pc \in {"ai", "commands"}

\* ------------------------------------------------------------------------
\* Properties of the gematria calculator (specification GemSpec).

\* The 22 letters of the alphabet in order.
Alphabet ==
    <<"alef", "bet", "gimel", "dalet", "he", "vav", "zayin", "chet", "tet",
      "yod", "kaf", "lamed", "mem", "nun", "samekh", "ayin", "pe", "tsadi",
      "qof", "resh", "shin", "tav">>

FinalForms == {"kaf_final", "mem_final", "nun_final", "pe_final", "tsadi_final"}

BaseOf(c) ==
    CASE c = "kaf_final" -> "kaf"
      [] c = "mem_final" -> "mem"
      [] c = "nun_final" -> "nun"
      [] c = "pe_final" -> "pe"
      [] c = "tsadi_final" -> "tsadi"
      [] OTHER -> c

\* The 1-based position of a letter, or of the base letter of a final form.
Position(c) == CHOOSE i \in 1..Len(Alphabet) : Alphabet[i] = BaseOf(c)

\* The value the claims give a character of the table: a final form counts
\* as 20, 40, 50, 80, 90, any other letter as the table says.
ClaimedValue(c) ==
    CASE c = "kaf_final" -> 20
      [] c = "mem_final" -> 40
      [] c = "nun_final" -> 50
      [] c = "pe_final" -> 80
      [] c = "tsadi_final" -> 90
      [] OTHER -> Get(c, 0)

ClaimedReduced(c) ==
    IF ClaimedValue(c) % 9 = 0 THEN 9 ELSE ClaimedValue(c) % 9

\* The sum of f over the in-table characters of a text, f a table by letter.
ClaimedSum(f, text) ==
    LET cs == InTableChars(text)
    IN  Sum([i \in 1..Len(cs) |-> f[cs[i]]])

\* The claimed value and the claimed reduced value of every letter.
ClaimedValues == [c \in Letters |-> ClaimedValue(c)]

ClaimedReduceds == [c \in Letters |-> ClaimedReduced(c)]

\* C8: the standard value is the sum of the table values of the in-table
\* characters, final forms at their base letter's value; yod-he-vav-he gives
\* 26, chet-yod 18, and final kaf and kaf both 20.
C8_StandardIsSum ==
    gem_out.done =>
       /\ gem_out.standard = ClaimedSum(ClaimedValues, gem_text)
       /\ gem_text = <<"yod", "he", "vav", "he">> => gem_out.standard = 26
       /\ gem_text = <<"chet", "yod">> => gem_out.standard = 18
       /\ gem_text \in {<<"kaf_final">>, <<"kaf">>} => gem_out.standard = 20
       /\ (Len(gem_text) = 1 /\ gem_text[1] \in FinalForms)
             => gem_out.standard = Get(BaseOf(gem_text[1]), 0)

\* C8 witness: the calculator has computed 26 for yod-he-vav-he.
C8_Witness ==
    /\ gem_out.done
    /\ gem_text = <<"yod", "he", "vav", "he">>
    /\ gem_out.standard = 26

\* C9: the reduced value is the sum over the in-table characters of the
\* value mod 9 with 0 counted as 9; tet and tsadi each give 9, chet-yod 9.
C9_ReducedFoldsToNine ==
    gem_out.done =>
       /\ gem_out.small = ClaimedSum(ClaimedReduceds, gem_text)
       /\ gem_text \in {<<"tet">>, <<"tsadi">>} => gem_out.small = 9
       /\ gem_text = <<"chet", "yod">> => gem_out.small = 9
       /\ gem_out.small >= Len(InTableChars(gem_text))

\* C9 witness: the calculator has computed 9 for tsadi, whose value is 90.
C9_Witness ==
    /\ gem_out.done
    /\ gem_text = <<"tsadi">>
    /\ gem_out.standard = 90
    /\ gem_out.small = 9

\* C10 as claimed: the ordinal value is the sum over the in-table characters
\* of the position in the 22-letter alphabet, a final form at the position
\* of its base letter, so that tav contributes 22.
C10_OrdinalIsPosition ==
    gem_out.done =>
       /\ gem_out.ordinal = ClaimedSum([c \in Letters |-> Position(c)], gem_text)
       /\ gem_text = <<"tav">> => gem_out.ordinal = 22

\* C11: characters outside the table are left out and cause no error: the
\* three values of a text are those of the text without its out-of-table
\* characters, a text with no in-table character (the empty text too) gives
\* 0, 0 and 0, and when no Discord call fails the result is delivered with
\* no error embed, whatever the characters.
C11_OutsideCharsIgnored ==
    gem_out.done =>
       LET core == InTableChars(gem_text)
       IN  /\ gem_out.standard = standard_value(core)
           /\ gem_out.small = small_value(core)
           /\ gem_out.ordinal = ordinal_value(core)
           /\ core = << >> =>
                 /\ gem_out.standard = 0
                 /\ gem_out.small = 0
                 /\ gem_out.ordinal = 0
           /\ gem_out.raised_at = "none" =>
                 /\ gem_out.sent
                 /\ ~gem_out.error
                 /\ gem_out.ended = "normal"

\* C11 witness: chet-space-yod-a was calculated as chet-yod and delivered.
C11_Witness ==
    /\ gem_out.done
    /\ gem_text = <<"chet", "space", "yod", "a">>
    /\ gem_out.standard = 18
    /\ gem_out.sent
    /\ ~gem_out.error

\* The annotation the claims give a standard value.
ClaimedAnnotation(n) ==
    CASE n = 26 -> "yhvh"
      [] n = 86 -> "elohim"
      [] n = 18 -> "chai"
      [] n = 72 -> "chesed"
      [] n = 36 -> "righteous"
      [] n = 248 -> "limbs"
      [] n = 365 -> "negative_commands"
      [] n = 613 -> "mitzvot"
      [] OTHER -> "none"

\* C12: the annotation is a function of the standard value only: present
\* exactly for 26, 86, 18, 72, 36, 248, 365 and 613, with the name of that
\* number, absent for every other value, and its absence is no error.
C12_AnnotationByStandard ==
    gem_out.done =>
       /\ gem_out.special = ClaimedAnnotation(gem_out.standard)
       /\ gem_out.special # "none"
             <=> gem_out.standard \in {26, 86, 18, 72, 36, 248, 365, 613}
       /\ (gem_out.special = "none" /\ gem_out.raised_at = "none")
             => ~gem_out.error

\* C12 witness: tav-resh-yod-gimel has the value 613 and its annotation.
C12_Witness ==
    /\ gem_out.done
    /\ gem_text = <<"tav", "resh", "yod", "gimel">>
    /\ gem_out.standard = 613
    /\ gem_out.special = "mitzvot"

\* The value of the i-th letter of the alphabet: 1..9, 10..90, 100..400.
ExpectedValue(i) ==
    IF i <= 9 THEN i ELSE IF i <= 18 THEN (i - 9) * 10 ELSE (i - 18) * 100

\* The table as the claims describe it: one entry per letter, the values of
\* the alphabet in order, a final form at its base letter's value.
TableAsClaimed ==
    /\ \A i, j \in 1..Len(gematria_values) :
          gematria_values[i][1] = gematria_values[j][1] => i = j
    /\ Letters = {Alphabet[i] : i \in 1..Len(Alphabet)} \cup FinalForms
    /\ Len(Alphabet) = 22
    /\ \A i \in 1..Len(Alphabet) : Get(Alphabet[i], 0) = ExpectedValue(i)
    /\ \A f \in FinalForms : Get(f, 0) = Get(BaseOf(f), 0)

\* C13: the table gives every letter, the five final forms too, exactly
\* one value; the 22 base letters have 1..9, 10..90 by tens and 100..400 by
\* hundreds in alphabet order, a final form has its base letter's value,
\* and every calculation reads this same table.
C13_TableIsFixed ==
    /\ TableAsClaimed
    /\ (gem_out.done /\ Len(gem_text) = 1 /\ InTable(gem_text[1]))
          => gem_out.standard = ExpectedValue(Position(gem_text[1]))

\* C13 witness: final tsadi alone was calculated as 90.
C13_Witness ==
    /\ gem_out.done
    /\ gem_text = <<"tsadi_final">>
    /\ gem_out.standard = 90

\* ------------------------------------------------------------------------
\* The calculator beside the message handlers (specification PureSpec).

SixKeys == {"rashi", "ibn_ezra", "ramban", "ralbag", "sforno", "radak"}

\* The keys the run asked the text-library client for, in order.
LookedUp ==
    SelectSeq(cmd.events, LAMBDA e : e[1] = "lookup")

\* The commentary keys among them: every lookup of /commentary, and the
\* lookups of /text after the first, which is that of the main text.
CommentaryKeys ==
    LET ks == LookedUp
    IN  IF cmd.name = "text"
        THEN {ks[i][2] : i \in 2..Len(ks)}
        ELSE {ks[i][2] : i \in 1..Len(ks)}

\* The word delimiter of the call site.
Delimiter == IF cmd.name = "text" THEN "." ELSE "_"

\* The normalized reference as the claims give it, character by character.
ClaimedNormalized(reference, delim) ==
    [i \in 1..Len(reference) |->
        CASE reference[i] = ":" -> "."
          [] reference[i] = " " -> delim
          [] OTHER -> reference[i]]

MapOfSite ==
    IF cmd.name = "text" THEN get_text_commentator_map ELSE commentator_map

\* The two maps as the claims describe them: the same map at both call
\* sites, with the six keys and six pairwise distinct labels.
MapsAsClaimed ==
    /\ get_text_commentator_map = commentator_map
    /\ {commentator_map[i][1] : i \in 1..Len(commentator_map)} = SixKeys
    /\ \A i, j \in 1..Len(commentator_map) :
          commentator_map[i][2] = commentator_map[j][2] => i = j

ClaimedFold(option) ==
    CASE option = "Rashi" -> "rashi"
      [] option = "RADAK" -> "radak"
      [] option = "None" -> "none"
      [] OTHER -> option

\* C17: a commentator key outside the six-element set (the key is the
\* option in lower case, as both call sites compare it) never leads to a
\* commentary lookup: /commentary makes no call of the text-library client
\* at all, /text builds and fetches no commentary key and makes only the
\* lookup of the main text.
C17_NoLookupOutsideSet ==
    (cmd.name # "none" /\ ClaimedFold(cmd.commentator) \notin SixKeys) =>
       /\ CommentaryKeys = {}
       /\ cmd.name = "commentary" => Len(LookedUp) = 0
       /\ cmd.name = "text" =>
             /\ Len(LookedUp) <= 1
             /\ \A i \in 1..Len(LookedUp) : LookedUp[i][2] = cmd.reference

\* C17 witness: /text with the option rambam delivered the main text and
\* ended with one lookup.
C17_Witness ==
    /\ cmd.name = "text"
    /\ cmd.commentator = "rambam"
    /\ cmd.reference = GenesisRef
    /\ cmd.events = <<LookupOf(GenesisRef), Sent("main_text")>>
    /\ cmd.ended = "normal"

\* The run reached the place where the call site reads its commentator
\* option and no call failed: /commentary was deferred, /text delivered the
\* main text.
OptionRead ==
    /\ cmd.raised_at = "none"
    /\ cmd.name = "commentary" \/ (cmd.name = "text" /\ Sent("main_text") \in
                                        {cmd.events[i] : i \in 1..Len(cmd.events)})

\* C18 as claimed: at both call sites a commentator key outside the set is
\* reported to the user as an error that presents the valid keys; it is
\* never silently ignored and never ends the handler with an exception.
C18_UnknownKeyReported ==
    (OptionRead /\ ClaimedFold(cmd.commentator) \notin SixKeys \cup {"none", ""}) =>
       /\ cmd.events[Len(cmd.events)] = Sent("unknown_commentator")
       /\ cmd.ended = "normal"

\* C20 as claimed: an exception raised inside the body of /gematria,
\* /commentary or /text is caught by the command and turned into an error
\* reply and the handler ends normally; it changes neither
\* processed_messages nor the auto-reply settings.
C20_ErrorsCaught ==
    /\ [](cmd.raised_at # "none" =>
             /\ cmd.ended = "normal"
             /\ cmd.events[Len(cmd.events)] = Sent("error"))
    /\ [](gem_out.raised_at # "none" =>
             /\ gem_out.ended = "normal"
             /\ gem_out.error)
    /\ [][(cmd' # cmd \/ gem_out' # gem_out) =>
             /\ processed_messages' = processed_messages
             /\ auto_reply_enabled' = auto_reply_enabled]_vars

\* C20 amended: an exception raised inside the try block of a command (a
\* failure of the text-library client, of formatting or of a send) is
\* caught and the error reply is sent; when that reply is delivered the
\* handler ends normally.  An exception of interaction.response.defer(),
\* which stands before the try, or of the send of the error reply itself,
\* leaves the command with no reply.  In every case processed_messages and
\* the auto-reply settings are unchanged and the other commands go on.
C20_ErrorsCaughtInTry ==
    /\ [](cmd.raised_at = "try" =>
             \/ /\ cmd.ended = "normal"
                /\ cmd.events[Len(cmd.events)] = Sent("error")
             \/ /\ cmd.ended = "raised"
                /\ \A i \in 1..Len(cmd.events) : cmd.events[i] # Sent("error"))
    /\ [](cmd.raised_at = "defer" =>
             cmd.ended = "raised" /\ cmd.events = << >>)
    /\ [](cmd.raised_at = "none" /\ cmd.name # "none" =>
             /\ cmd.ended = "normal"
             /\ \A i \in 1..Len(cmd.events) : cmd.events[i] # Sent("error"))
    /\ [](gem_out.raised_at \in {"send", "react"} =>
             /\ gem_out.done
             /\ gem_out.error <=> gem_out.ended = "normal"
             /\ ~gem_out.error <=> gem_out.ended = "raised")
    /\ [](gem_out.raised_at = "defer" =>
             /\ gem_out.ended = "raised"
             /\ ~gem_out.done /\ ~gem_out.sent /\ ~gem_out.error)
    /\ [](gem_out.raised_at = "none" /\ gem_out.ended # "no" =>
             gem_out.ended = "normal" /\ gem_out.sent /\ ~gem_out.error)
    /\ []((cmd.ended = "raised" /\ gem_out.ended = "no") => ENABLED GemNext)
    /\ [][(cmd' # cmd \/ gem_out' # gem_out) =>
             /\ processed_messages' = processed_messages
             /\ auto_reply_enabled' = auto_reply_enabled]_vars

\* C20 witness: the client failed on the commentary of /text after the main
\* text was delivered, the error reply was sent and the run ended normally,
\* and /gematria has caught a failed send too.
C20_Witness ==
    /\ cmd.name = "text"
    /\ cmd.raised_at = "try"
    /\ cmd.ended = "normal"
    /\ Len(cmd.events) = 4
    /\ cmd.events[2] = Sent("main_text")
    /\ cmd.events[4] = Sent("error")
    /\ gem_out.raised_at = "send"
    /\ gem_out.error

\* ------------------------------------------------------------------------
\* The auto-reply setting and the guard (specification Spec).

\* C19: while auto-reply is disabled for a guild the bot does not respond to
\* mentions from it: a handler that stands at the auto-reply check of a
\* guild whose setting is False returns there, so it requests no AI
\* response and sends no reply, and nothing else runs before it returns.
C19_DisabledGuildSilent ==
    [][\A h \in InFlight :
          (/\ h.pc = "autoreply"
           /\ h.guild \in DOMAIN auto_reply_enabled
           /\ ~auto_reply_enabled[h.guild])
          => /\ tasks' = Take(tasks, h)
             /\ replies' = replies
             /\ auto_reply_enabled' = auto_reply_enabled
      ]_vars

\* C19 witness: a mention of a disabled guild was admitted and its handler
\* has returned at the check with no reply.
C19_Witness ==
    /\ last.what = "admitted"
    /\ tasks = EmptyBag
    /\ \E g \in DOMAIN auto_reply_enabled : ~auto_reply_enabled[g]
    /\ replies[last.id] = 0

\* C21 as claimed: whenever the cleanup evicts, the 100 ids it removes are
\* the 100 least recently admitted ids of the set (ids are admitted in
\* increasing order), so the id of the current event is never among them.
C21_EvictsOldest ==
    [][\A h \in InFlight :
          (h.pc = "cleanup" /\ tasks' # tasks
             /\ processed_messages' # processed_messages)
          => /\ h.id \in processed_messages'
             /\ Cardinality(processed_messages \ processed_messages') = EvictBatch
             /\ \A x \in processed_messages \ processed_messages' :
                   \A y \in processed_messages' : x < y
      ]_vars

\* The step is a step of the handler h.
Stepped(h) == CopiesIn(h, tasks') < CopiesIn(h, tasks)

\* The step moves the handler h to pc and leaves the others.
Moves(h, pc) == tasks' = Put(Take(tasks, h), [h EXCEPT !.pc = pc])

\* The step delivers one reply to the message of h, or none.
Delivers(h) == replies' = [replies EXCEPT ![h.id] = @ + 1]

\* The reply logic of one admitted event, step by step: with content the
\* handler asks the AI client; a response is sent as the one reply and the
\* handler goes on to the commands; when the AI client or that send raises,
\* nothing was delivered and the handler sends the apology, after which it
\* goes on to the commands (or leaves when the apology raises too); without
\* content the handler goes on to the commands with no reply.
ReplyLogic ==
    \A h \in InFlight :
       Stepped(h) =>
          /\ h.pc = "cleanup" =>
                /\ replies' = replies
                /\ \E g \in BagToSet(tasks') :
                      /\ g.id = h.id
                      /\ g.pc = IF h.content THEN "ai" ELSE "commands"
                      /\ tasks' = Put(Take(tasks, h), g)
          /\ h.pc = "ai" =>
                /\ replies' = replies
                /\ Moves(h, "reply") \/ Moves(h, "apology")
          /\ h.pc = "reply" =>
                \/ Delivers(h) /\ Moves(h, "commands")
                \/ replies' = replies /\ Moves(h, "apology")
          /\ h.pc = "apology" =>
                \/ Delivers(h) /\ Moves(h, "commands")
                \/ replies' = replies /\ tasks' = Take(tasks, h)
          /\ h.pc = "commands" =>
                replies' = replies /\ tasks' = Take(tasks, h)

\* C22 as claimed: an admitted event with content gets exactly one reply,
\* the AI response when generating and sending succeed and the apology
\* instead when one of them raises, never both; an admitted event whose
\* content is empty gets no reply and its id stays recorded.
C22_OneReplyOrApology ==
    [][/\ ReplyLogic
       /\ \A h \in InFlight :
             (Stepped(h) /\ h.pc = "cleanup" /\ ~h.content)
             => h.id \in processed_messages'
      ]_vars

\* ------------------------------------------------------------------------
\* Properties of the bot from its construction on (specification FreshSpec).

C24_OnlyAdminsToggle ==
    /\ [](\A x \in Toggles : x[1] = 0 => ~x[3])
    /\ [](0 \notin DOMAIN auto_reply_enabled)
    /\ [][\A x \in Toggles :
            (~x[3] /\ toggle_autoreply(x[1], x[2], x[3], x[4])) =>
               /\ last'.what = "denied"
               /\ auto_reply_enabled' = auto_reply_enabled
               /\ processed_messages' = processed_messages
               /\ tasks' = tasks
         ]_vars
    /\ [][last'.what = "denied" => auto_reply_enabled' = auto_reply_enabled]_vars

\* C24 witness: guild 1 is switched off and a later toggle was answered
\* with Permission Denied, the setting still off.
C24_Witness ==
    /\ last.what = "denied"
    /\ 1 \in DOMAIN auto_reply_enabled
    /\ ~auto_reply_enabled[1]

\* The handler of a message that does not mention the bot.
PlainHandler == Handler("commands", 0, 0, FALSE, FALSE)

\* C25: the bot never reacts to its own messages and the guard only sees
\* mentions: the bot's own message gives no reply, no change of
\* processed_messages and no command processing; a message of another
\* author without a mention leaves processed_messages unchanged, gets no
\* AI reply and is passed to process_commands exactly once.
C25_OwnAndPlainMessages ==
    /\ [][(Arrived /\ last'.what = "own") =>
            /\ processed_messages' = processed_messages
            /\ tasks' = tasks
            /\ replies' = replies
         ]_vars
    /\ [][(Arrived /\ last'.what = "plain") =>
            /\ processed_messages' = processed_messages
            /\ replies' = replies
            /\ BagCardinality(tasks') = BagCardinality(tasks) + 1
            /\ CopiesIn(PlainHandler, tasks') = CopiesIn(PlainHandler, tasks) + 1
         ]_vars
    /\ [](\A h \in InFlight : ~h.passed => h = PlainHandler)
    /\ [][Stepped(PlainHandler) =>
            /\ tasks' = Take(tasks, PlainHandler)
            /\ processed_messages' = processed_messages
            /\ replies' = replies
         ]_vars

\* C25 witness: the bot's own message arrived while a message without a
\* mention is in process_commands, no id recorded and no reply sent.
C25_Witness ==
    /\ last.what = "own"
    /\ CopiesIn(PlainHandler, tasks) = 1
    /\ processed_messages = {}
    /\ \A i \in DOMAIN replies : replies[i] = 0

\* The mention with id i was admitted and its handler has just returned at
\* the auto-reply check: the log still shows the admission and no handler
\* of i is in flight.
ReturnedAtCheck(i) ==
    /\ last.what = "admitted"
    /\ last.id = i
    /\ \A h \in InFlight : h.id # i

\* C27: a mention is recorded in processed_messages even when auto-reply is
\* disabled for its guild, the insertion coming before the check; so when
\* auto-reply is enabled later and the same id is delivered again, not
\* evicted, the redelivery is discarded and the event is never answered.
C27_DisabledStillRecorded ==
    /\ [][\A h \in InFlight :
            (/\ h.pc = "autoreply"
             /\ Stepped(h)
             /\ h.guild \in DOMAIN auto_reply_enabled
             /\ ~auto_reply_enabled[h.guild])
            => /\ h.id \in processed_messages'
               /\ tasks' = Take(tasks, h)
         ]_vars
    /\ [][(Guarded /\ last'.id \in processed_messages) =>
            /\ last'.what = "duplicate"
            /\ tasks' = tasks
            /\ replies' = replies
         ]_vars
    /\ \A i \in 1..MaxNew :
          [](ReturnedAtCheck(i) =>
                [](i \in evicted
                     \/ (i \in processed_messages /\ replies[i] = 0)))

\* C27 witness: auto-reply is enabled for guild 1 again, a recorded id that
\* was never answered was delivered again and discarded, and no handler is
\* in flight.
C27_Witness ==
    /\ last.what = "duplicate"
    /\ last.id \in processed_messages
    /\ replies[last.id] = 0
    /\ tasks = EmptyBag
    /\ 1 \in DOMAIN auto_reply_enabled
    /\ auto_reply_enabled[1]

\* ------------------------------------------------------------------------
\* The order of the lookups of /text (specification CmdSpec).

\* The place of the first commentary lookup among the events, 0 when none.
CommentaryLookupAt ==
    LET at == {i \in 2..Len(cmd.events) : cmd.events[i][1] = "lookup"}
    IN  IF at = {} THEN 0 ELSE CHOOSE i \in at : \A j \in at : i <= j

\* C26: in /text the commentary is secondary to the main text: a commentary
\* lookup is issued only after the main text was found and sent, only for
\* an option that is not none and names a known commentator; when the main
\* text is not found no commentary lookup is issued; and when the
\* commentary lookup finds nothing the user gets the not-available note,
\* not the error outcome, with the main text already delivered.
C26_CommentaryIsSecondary ==
    cmd.name = "text" =>
       /\ Len(LookedUp) <= 2
       /\ CommentaryLookupAt # 0 =>
             /\ CommentaryLookupAt = 3
             /\ cmd.events[1] = LookupOf(cmd.reference)
             /\ cmd.results[1] = "found"
             /\ cmd.events[2] = Sent("main_text")
             /\ ClaimedFold(cmd.commentator) \in SixKeys
       /\ (Len(cmd.results) >= 1 /\ cmd.results[1] # "found") =>
             CommentaryKeys = {}
       /\ (Len(cmd.results) = 2 /\ cmd.results[2] = "empty"
             /\ cmd.raised_at = "none") =>
             /\ cmd.events[2] = Sent("main_text")
             /\ Len(cmd.events) = 4
             /\ cmd.events[4] = Sent("commentary_unavailable")
             /\ cmd.ended = "normal"

\* C26 witness: /text delivered the main text, looked up Rashi, found
\* nothing and sent the not-available note.
C26_Witness ==
    /\ cmd.name = "text"
    /\ cmd.commentator = "rashi"
    /\ cmd.reference = GenesisRef
    /\ cmd.results = <<"found", "empty">>
    /\ Len(cmd.events) = 4
    /\ cmd.events[2] = Sent("main_text")
    /\ cmd.events[4] = Sent("commentary_unavailable")

\* ------------------------------------------------------------------------
\* The reduced value against the standard value (specification GemSpec).

\* C28: for a text with n in-table characters the reduced value is
\* congruent to the standard value modulo 9, lies between n and 9 * n, and
\* is not above the standard value.
C28_ReducedAgainstStandard ==
    gem_out.done =>
       LET n == Len(InTableChars(gem_text))
       IN  /\ gem_out.small % 9 = gem_out.standard % 9
           /\ n <= gem_out.small
           /\ gem_out.small <= 9 * n
           /\ gem_out.small <= gem_out.standard

\* C28 witness: alef-lamed-he-yod-final mem has 5 in-table characters, the
\* standard value 86 and the reduced value 14.
C28_Witness ==
    /\ gem_out.done
    /\ gem_text = <<"alef", "lamed", "he", "yod", "mem_final">>
    /\ gem_out.standard = 86
    /\ gem_out.small = 14

====
